---- MODULE Spec2Model ----
(***************************************************************************)
(* A model of p8advent's LZW string packer (src/p8advent/lzwlib.py): the   *)
(* encoder class LzwLib (id_for_string, as_bytes) and the Pico-8 Lua       *)
(* unpacker it generates (P8ADVENT_LUA: _tl:c, _tl:o, _t), run against the *)
(* bytes the encoder produced.                                             *)
(*                                                                         *)
(* Strings are sequences of one-character strings.  Python exceptions and  *)
(* Lua runtime errors are outcomes recorded in ret / lua.                  *)
(*                                                                         *)
(* Scale.  The program's character table has 63 characters (64 with the    *)
(* '@' of CHAR_TABLE_FOR_SID, 6 bits per identifier character), its codes  *)
(* start 7 bits wide and its dictionary is capped at 4096 = 2^(7+5)        *)
(* entries.  The model keeps these relations and shrinks the one parameter *)
(* they hang on: SidBits (6 in the program) gives a table of 2^SidBits - 1 *)
(* characters, a starting width of SidBits + 1 and a cap of                *)
(* 2^(SidBits + 1 + CapGrowth) entries (CapGrowth is 5 in the program).    *)
(* The variables sid_bits and cap_growth hold the scale of a behaviour;    *)
(* they are set when the behaviour starts and never change.                *)
(***************************************************************************)
EXTENDS Integers, Sequences, FiniteSets, TLC

VARIABLES
    start_addr,      \* LzwLib._start_addr
    end_addr,        \* LzwLib._end_addr
    string_id_map,   \* LzwLib._string_id_map, as a sequence of <<key, sid>> in insertion order
    data,            \* LzwLib._data, a sequence of bytes
    dict,            \* LzwLib._dict: entry i (1-based) has code i - 1
    code_width,      \* LzwLib._code_width
    code_bit_pos,    \* LzwLib._code_bit_pos
    code_buffer,     \* LzwLib._code_buffer (None before the first encoding)
    ret,             \* what the last encoder call did: its argument and its result or exception
    packed,          \* history: per record, its address, header values and the
                     \* <<code, width>> pairs handed to the bit packer
    calls,           \* history: number of id_for_string calls made
    phase,           \* "build" while tool.main adds strings, "run" once the cart holds the bytes
    cart,            \* the bytes of as_bytes() as they sit in cart memory from _tl.a on
    tl_d,            \* Lua _tl.d: None (nil), or Some(the overflow table)
    tl_w,            \* Lua _tl.w
    lua,             \* what the last _t() call did, what Phase 1 read and
                     \* what Phase 2 read in that call
    first_run,       \* the calls made on a first encoder, with their results
    second_run,      \* None, or Some(the calls repeated on a second, fresh
                     \* encoder, with their results)
    sid_bits,        \* the bits an identifier character holds (the scale)
    tokens,          \* tool.main: my_lexer._tokens, records [type, value]
    textlib,         \* a TextLib: its five fields
    word_log,        \* history: the _encode_word calls made, with results
    memmap,          \* tool.main: the cart's regions (start_a, end_a, data)
    cap_growth       \* the bits the dictionary may grow beyond the start
                     \* width (the scale of MAX_TABLE_ENTRY_COUNT)

vars == <<start_addr, end_addr, string_id_map, data, dict, code_width,
          code_bit_pos, code_buffer, ret, packed, calls, phase, cart,
          tl_d, tl_w, lua, first_run, second_run, sid_bits, tokens,
          textlib, word_log, memmap, cap_growth>>

runVars == <<first_run, second_run>>

Nil == "nil"

\* Python's None and Lua's nil, where the other values are not strings:
\* None is the empty sequence, a value v is <<v>>.
None == <<>>

Some(v) == <<v>>

IsNone(o) == o = <<>>

Get(o) == o[1]

(***************************************************************************)
(* Bounds of the model.                                                    *)
(***************************************************************************)
SidBits == 2
CapGrowth == 0
MaxCalls == 3
MaxDecodes == 2

(***************************************************************************)
(* Program constants, at the scale of the behaviour.  CharPool lists       *)
(* characters of the program's table; CHAR_TABLE is its first              *)
(* 2^sid_bits - 1.                                                         *)
(***************************************************************************)
CharPool ==
    << " ", "a", "b", "c", "d", "e", "g", "h", "o", "s", "t", "f", "i", "j",
       "k", "l", "m", "n", "p", "q", "r", "u", "v", "w", "x", "y", "z", "0",
       "1", "2", "3" >>

Pow2(n) == 2 ^ n

CHAR_TABLE == SubSeq(CharPool, 1, Pow2(sid_bits) - 1)

CHAR_TABLE_FOR_SID == CHAR_TABLE \o <<"@">>

LZW_STARTING_WIDTH == sid_bits + 1

MAX_TABLE_ENTRY_COUNT == Pow2(LZW_STARTING_WIDTH + cap_growth)

(***************************************************************************)
(* Sequence and bit helpers.                                               *)
(***************************************************************************)
Slice(s, i, j) == SubSeq(s, i + 1, j)

InSeq(x, q) == \E k \in 1..Len(q) : q[k] = x

IndexOf(x, q) == (CHOOSE k \in 1..Len(q) : q[k] = x) - 1

Bit(x, k) == (x \div Pow2(k)) % 2

OrBit(x, b, k) == IF Bit(x, k) = 1 THEN x ELSE x + b * Pow2(k)

SetLast(q, v) == [q EXCEPT ![Len(q)] = v]

\* The one element of a one-element set.  Only({F(x) : x \in {e}}) is F(e)
\* with e evaluated once.
Only(S) == CHOOSE y \in S : TRUE

(***************************************************************************)
(* s = re.sub(r'\s+', ' ', s.lower())                                      *)
(***************************************************************************)
Whitespace == {" ", "\n", "\t"}

LowerChar(c) ==
    CASE c = "A" -> "a"
      [] c = "B" -> "b"
      [] c = "T" -> "t"
      [] OTHER -> c

Lower(s) == [k \in 1..Len(s) |-> LowerChar(s[k])]

RECURSIVE CollapseWs(_)
CollapseWs(s) ==
    IF s = <<>> THEN <<>>
    ELSE IF Head(s) \in Whitespace
         THEN LET rest == CollapseWs(Tail(s))
              IN  IF Len(s) > 1 /\ s[2] \in Whitespace
                  THEN rest
                  ELSE <<" ">> \o rest
         ELSE <<Head(s)>> \o CollapseWs(Tail(s))

\* A key that is lower-cased but keeps its whitespace as given.
KeyForNoCollapse(s) == Lower(s)

KeyFor(s) == CollapseWs(Lower(s))

(***************************************************************************)
(* LzwLib.id_for_string, lines 270-296: the encoding loop.  st carries the *)
(* fields the loop assigns and its locals, and in steps what each pass of  *)
(* the loop did: the width it began with (w), the index of the entry it    *)
(* inserted (created), the code it packed (code) and the width it left     *)
(* (w2).                                                                   *)
(***************************************************************************)
\* A match that is never extended: one character at a time.
ExtendEndNever(s, start_i, end_i, d) == end_i

RECURSIVE ExtendEnd(_, _, _, _)
ExtendEnd(s, start_i, end_i, d) ==
    IF end_i < Len(s) /\ InSeq(Slice(s, start_i, end_i), d)
    THEN ExtendEnd(s, start_i, end_i + 1, d)
    ELSE end_i

\* A capacity test that is off by one.
CapAllowsInsertInclusive(d) == Len(d) <= MAX_TABLE_ENTRY_COUNT

CapAllowsInsert(d) == Len(d) < MAX_TABLE_ENTRY_COUNT

RECURSIVE PackBits(_, _, _, _)
PackBits(buf, bp, code, n) ==
    IF n = 0 THEN [buf |-> buf, bp |-> bp]
    ELSE LET b1 == IF bp = 0 THEN Append(buf, 0) ELSE buf
             b2 == SetLast(b1, OrBit(b1[Len(b1)], code % 2, bp))
         IN  Only({PackBits(b, (bp + 1) % 8, code \div 2, n - 1) : b \in {b2}})

WidthAfter(w, created_new_entry) ==
    IF ~IsNone(created_new_entry) /\ Get(created_new_entry) = Pow2(w) - 1
    THEN w + 1
    ELSE w

\* A cursor that moves past the character that ended the match.
CursorPastFailed(start_i, end_i) == end_i + 1

\* Line 296: the cursor after a step that matched s[start_i:end_i].
CursorAfter(start_i, end_i) == end_i

EncodeStepFrom(s, st, end0) ==
    LET start_i == st.start_i
        absent  == ~InSeq(Slice(s, start_i, end0), st.dict)
        insert  == absent /\ CapAllowsInsert(st.dict)
        d1      == IF insert THEN Append(st.dict, Slice(s, start_i, end0))
                   ELSE st.dict
        created == IF insert THEN Some(Len(st.dict)) ELSE None
        end_i   == IF absent THEN end0 - 1 ELSE end0
        key     == Slice(s, start_i, end_i)
    IN  IF ~InSeq(key, d1)
        THEN [st EXCEPT !.dict = d1, !.exc = "KeyError",
                        !.steps = Append(st.steps,
                                         [w |-> st.w, created |-> created,
                                          code |-> None, w2 |-> st.w,
                                          start_i |-> start_i,
                                          n |-> Len(st.dict)])]
        ELSE LET code == IndexOf(key, d1)
                 pk   == PackBits(st.buf, st.bp, code, st.w)
             IN  [st EXCEPT !.dict = d1,
                            !.buf = pk.buf,
                            !.bp = pk.bp,
                            !.log = Append(st.log, <<code, st.w>>),
                            !.steps = Append(st.steps,
                                [w |-> st.w, created |-> created,
                                 code |-> Some(code),
                                 w2 |-> WidthAfter(st.w, created),
                                 start_i |-> start_i,
                                 n |-> Len(st.dict)]),
                            !.w = WidthAfter(st.w, created),
                            !.code_count = st.code_count + 1,
                            !.start_i = CursorAfter(start_i, end_i)]

EncodeStep(s, st) ==
    Only({EncodeStepFrom(s, st, e) :
            e \in {ExtendEnd(s, st.start_i, st.start_i + 1, st.dict)}})

RECURSIVE EncodeLoop(_, _)
EncodeLoop(s, st) ==
    IF st.exc # Nil \/ ~(st.start_i < Len(s)) THEN st
    ELSE Only({EncodeLoop(s, nx) : nx \in {EncodeStep(s, st)}})

\* An identifier made from the address plus the end of the window.
EncodeSidWindow(sid) ==
    << CHAR_TABLE_FOR_SID[((sid + end_addr) % Pow2(sid_bits)) + 1],
       CHAR_TABLE_FOR_SID[(((sid + end_addr) \div Pow2(sid_bits))
                             % Pow2(sid_bits)) + 1],
       CHAR_TABLE_FOR_SID[(((sid + end_addr) \div Pow2(2 * sid_bits))
                             % Pow2(sid_bits)) + 1] >>

EncodeSid(sid) ==
    << CHAR_TABLE_FOR_SID[(sid % Pow2(sid_bits)) + 1],
       CHAR_TABLE_FOR_SID[((sid \div Pow2(sid_bits)) % Pow2(sid_bits)) + 1],
       CHAR_TABLE_FOR_SID[((sid \div Pow2(2 * sid_bits)) % Pow2(sid_bits)) + 1] >>

RecordHeader(code_count, expected_table_id, expected_code_width) ==
    << code_count % 256, code_count \div 256,
       expected_table_id % 256, expected_table_id \div 256,
       expected_code_width >>

HasKey(m, k) == \E i \in 1..Len(m) : m[i][1] = k

Lookup(m, k) == m[CHOOSE i \in 1..Len(m) : m[i][1] = k][2]


(***************************************************************************)
(* tool.main, lines 116-120: the regions of an empty game's cart, scaled.  *)
(* A region is its start address, its end address and its bytes.           *)
(***************************************************************************)
RegionBounds == <<0, 4, 7, 8, 10, 51>>

EmptyGame ==
    [r \in 1..(Len(RegionBounds) - 1) |->
       [start_a |-> RegionBounds[r],
        end_a |-> RegionBounds[r + 1],
        data |-> [k \in 1..(RegionBounds[r + 1] - RegionBounds[r]) |-> 0]]]

\* A Python slice bound on a sequence of n items: a negative bound counts
\* from the end, and every bound is brought into 0..n.
PyBound(i, n) ==
    IF i < 0 THEN (IF n + i < 0 THEN 0 ELSE n + i)
    ELSE IF i > n THEN n ELSE i

\* q[i:j]
PySlice(q, i, j) ==
    LET a == PyBound(i, Len(q))
        b == PyBound(j, Len(q))
    IN  IF b <= a THEN <<>> ELSE SubSeq(q, a + 1, b)

\* q[i:j] = v on a bytearray: the slice is taken out and v put in, whatever
\* the two lengths are.
PySetSlice(q, i, j, v) ==
    LET a == PyBound(i, Len(q))
        b == IF PyBound(j, Len(q)) < a THEN a ELSE PyBound(j, Len(q))
    IN  SubSeq(q, 1, a) \o v \o SubSeq(q, b + 1, Len(q))

\* Lines 122-136: one pass of the copy loop, on the region reg.
CopyRegion(startaddr, text_bytes, reg) ==
    LET start_a == reg.start_a
        end_a == reg.end_a
        n == Len(text_bytes)
        data_start_a == IF startaddr > start_a THEN startaddr - start_a ELSE 0
        data_end_a == IF startaddr + n < end_a THEN startaddr + n - start_a
                      ELSE end_a
        text_start_a == IF startaddr > start_a THEN 0 ELSE start_a - startaddr
        text_end_a == IF startaddr + n < end_a THEN n
                      ELSE 0 - (startaddr + n - end_a)
    IN  IF startaddr > end_a \/ startaddr + n < start_a THEN reg
        ELSE [reg EXCEPT !.data =
                PySetSlice(reg.data, data_start_a, data_end_a,
                           PySlice(text_bytes, text_start_a, text_end_a))]

\* Lines 121-136: the loop over the regions.
CopyText(startaddr, text_bytes, mm) ==
    [r \in 1..Len(mm) |-> CopyRegion(startaddr, text_bytes, mm[r])]

(***************************************************************************)
(* LzwLib.id_for_string, the whole method.  The result is the new value of *)
(* every field the method assigns, with the identifier it returns or the   *)
(* exception it raises.                                                    *)
(***************************************************************************)
IdForStringResult(raw, m, dta, d, w, bp0, buf0) ==
    LET s == KeyFor(raw)
    IN  IF HasKey(m, s)
        THEN [exc |-> Nil, val |-> Lookup(m, s), map |-> m, data |-> dta,
              dict |-> d, w |-> w, bp |-> bp0, buf |-> buf0, hit |-> TRUE,
              log |-> None, steps |-> <<>>]
        ELSE Only({
        LET expected_table_id == Len(d)
            expected_code_width == w
            sid == start_addr + 2 + Len(dta)
            hdr == RecordHeader(st.code_count, expected_table_id,
                                expected_code_width)
        IN  IF st.exc # Nil
            THEN [exc |-> st.exc, val |-> None, map |-> m, data |-> dta,
                  dict |-> st.dict, w |-> st.w, bp |-> st.bp,
                  buf |-> Some(st.buf), hit |-> FALSE, log |-> None,
                  steps |-> st.steps]
            ELSE IF st.code_count \div 256 > 255
            THEN \* bytearray.append refuses a value above 255
                 [exc |-> "ValueError", val |-> None, map |-> m,
                  data |-> Append(dta, st.code_count % 256),
                  dict |-> st.dict, w |-> st.w, bp |-> st.bp,
                  buf |-> Some(st.buf), hit |-> FALSE, log |-> None,
                  steps |-> st.steps]
            ELSE [exc |-> Nil, val |-> EncodeSid(sid),
                  map |-> Append(m, <<s, EncodeSid(sid)>>),
                  data |-> dta \o hdr \o st.buf,
                  dict |-> st.dict, w |-> st.w, bp |-> st.bp,
                  buf |-> Some(st.buf), hit |-> FALSE,
                  log |-> Some([sid |-> sid, tid |-> expected_table_id,
                                w |-> expected_code_width,
                                codes |-> st.log]),
                  steps |-> st.steps]
        : st \in {EncodeLoop(s, [dict |-> d, w |-> w, buf |-> <<>>, bp |-> 0,
                                 code_count |-> 0, start_i |-> 0,
                                 log |-> <<>>, steps |-> <<>>,
                                 exc |-> Nil])} })

(***************************************************************************)
(* LzwLib.as_bytes.                                                        *)
(***************************************************************************)
\* A buffer that is handed out once: a call that follows another as_bytes
\* call gets the count prefix of an empty library and no records.
AsBytesDataOnce(m, dta) ==
    IF ret.op = "as_bytes" THEN <<0, 0>>
    ELSE <<Len(m) % 256, Len(m) \div 256>> \o dta

\* The count prefix with its high byte first.
AsBytesDataBigEndian(m, dta) == <<Len(m) \div 256, Len(m) % 256>> \o dta

AsBytesData(m, dta) == <<Len(m) % 256, Len(m) \div 256>> \o dta

\* A window test that refuses data filling the window exactly.
AsBytesFitsStrict(m, dta) ==
    ~(Len(AsBytesData(m, dta)) >= end_addr - start_addr)

AsBytesFits(m, dta) == ~(Len(AsBytesData(m, dta)) > end_addr - start_addr)

AsBytesResult(m, dta) ==
    IF Len(m) \div 256 > 255
    THEN [exc |-> "ValueError", val |-> None]
    ELSE IF AsBytesFits(m, dta)
    THEN [exc |-> Nil, val |-> AsBytesData(m, dta)]
    ELSE [exc |-> "TooMuchDataError", val |-> None]

(***************************************************************************)
(* The strings the caller may pass, and the address windows it may give.   *)
(***************************************************************************)
Inputs ==
    { <<>>, <<"A">>, <<"a">>, <<"b">>,
      <<"a", " ", "\n", "b">>, <<"a", " ", "b">>,
      <<"a", "b", "a", "b", "a">>, <<"a", "a", "a", "a">>,
      <<"a", "$">> }

StartAddrs == {0, 3}

Windows == {13, 48}

(***************************************************************************)
(* LzwLib.__init__                                                         *)
(***************************************************************************)
\* Everything but the start address: the fields as __init__ leaves them,
\* no cart yet.
Fresh ==
    /\ end_addr \in {start_addr + n : n \in Windows}
    /\ string_id_map = <<>>
    /\ data = <<>>
    /\ dict = [i \in 1..Len(CHAR_TABLE) |-> <<CHAR_TABLE[i]>>]
    /\ code_width = LZW_STARTING_WIDTH
    /\ code_bit_pos = 0
    /\ code_buffer = None
    /\ ret = [op |-> "init", arg |-> None, exc |-> Nil, val |-> None,
              hit |-> FALSE, steps |-> <<>>]
    /\ packed = <<>>
    /\ calls = 0
    /\ phase = "build"
    /\ cart = <<>>
    /\ tl_d = None
    /\ tl_w = LZW_STARTING_WIDTH
    /\ lua = [n |-> 0, err |-> Nil, arg |-> <<>>, val |-> <<>>,
              p1 |-> FALSE, reads |-> <<>>, addrs |-> <<>>,
              reads2 |-> <<>>]
    /\ first_run = <<>>
    /\ second_run = None
    /\ word_log = <<>>
    /\ memmap = EmptyGame

Init ==
    /\ sid_bits = SidBits
    /\ cap_growth = CapGrowth
    /\ tokens = <<>>
    /\ textlib = None
    /\ start_addr \in StartAddrs
    /\ Fresh

IdForStringCall(raw) ==
    /\ phase = "build"
    /\ \E r \in {IdForStringResult(raw, string_id_map, data, dict,
                                    code_width, code_bit_pos, code_buffer)} :
           /\ string_id_map' = r.map
           /\ data' = r.data
           /\ dict' = r.dict
           /\ code_width' = r.w
           /\ code_bit_pos' = r.bp
           /\ code_buffer' = r.buf
           /\ ret' = [op |-> "id_for_string", arg |-> raw, exc |-> r.exc,
                      val |-> r.val, hit |-> r.hit, steps |-> r.steps]
           /\ packed' = IF IsNone(r.log) THEN packed
                         ELSE Append(packed, Get(r.log))
    /\ calls' = calls + 1
    /\ UNCHANGED <<cap_growth, memmap, word_log, sid_bits, tokens, textlib,
                   start_addr, end_addr, phase, cart, tl_d, tl_w, lua>>

IdForString(raw) ==
    /\ calls < MaxCalls
    /\ IdForStringCall(raw)
    /\ UNCHANGED runVars

AsBytesCall ==
    /\ phase = "build"
    /\ \E r \in {AsBytesResult(string_id_map, data)} :
           ret' = [op |-> "as_bytes", arg |-> None, exc |-> r.exc,
                   val |-> r.val, hit |-> FALSE, steps |-> <<>>]
    /\ UNCHANGED <<cap_growth, memmap, word_log, sid_bits, tokens, textlib,
                   start_addr, end_addr, string_id_map, data, dict,
                   code_width, code_bit_pos, code_buffer, packed, calls,
                   phase, cart, tl_d, tl_w, lua>>

AsBytes ==
    /\ AsBytesCall
    /\ UNCHANGED runVars

(***************************************************************************)
(* The generated Lua (P8ADVENT_LUA with the lines _generate_lua appends).  *)
(* _tl.t is CHAR_TABLE, _tl.a is start_addr, _tl.w starts as               *)
(* LZW_STARTING_WIDTH and _tl.mt is MAX_TABLE_ENTRY_COUNT.  A Lua string   *)
(* is a sequence of characters; a Lua value that may be nil is None or     *)
(* Some(v).  A Lua runtime error stops the cart.                           *)
(***************************************************************************)
tl_t == CHAR_TABLE

tl_a == start_addr

\* The global variable tl, which line 96 reads (tl.mt).  The generated code
\* assigns _tl and its fields only; nothing assigns tl.
tl == None

peek(a) ==
    IF a >= tl_a /\ a < tl_a + Len(cart) THEN cart[a - tl_a + 1] ELSE 0

peek16(a) == peek(a) + 256 * peek(a + 1)

\* function _tl:c(o)
tl_c(o) == <<tl_t[o + 1]>>

\* function _tl:o(c)
tl_o(c) == IF InSeq(c, tl_t) THEN IndexOf(c, tl_t) ELSE Pow2(sid_bits) - 1

\* Lines 79-89 and 131-141: read one code of w bits from address a, bit bp.
RECURSIVE ReadCode(_, _, _, _, _)
ReadCode(a, bp, w, bi, c) ==
    IF bi > w THEN [c |-> c, a |-> a, bp |-> bp]
    ELSE Only({IF bp + 1 = 8
               THEN ReadCode(a + 1, 0, w, bi + 1, c1)
               ELSE ReadCode(a, bp + 1, w, bi + 1, c1)
               : c1 \in {OrBit(c, Bit(peek(a), bp), bi - 1)}})

\* _tl.d[k]: nil outside the table and at a hole.
TableGet(d, k) == IF k \in 1..Len(d) THEN d[k] ELSE None

\* _tl.d[k] = v.  The length of d is a border of the Lua table.
TableSet(d, k, v) ==
    [j \in 1..(IF k > Len(d) THEN k ELSE Len(d)) |->
        IF j = k THEN Some(v) ELSE TableGet(d, j)]

\* Lines 90-95: the string a code stands for, or nil.
Resolve(c, d) ==
    IF c <= Len(tl_t) - 1 THEN Some(tl_c(c))
    ELSE TableGet(d, c - Len(tl_t) + 1)

\* Lines 96-106: the table growth of Phase 1 after code c was read with
\* previous string p.  Gives the new d, _tl.w and r, or the error.
Grow(c, p, r, d, w) ==
    IF IsNone(p)
    THEN [err |-> Nil, d |-> d, w |-> w, r |-> r]
    ELSE IF IsNone(tl)
    THEN [err |-> "attempt to index global 'tl' (a nil value)",
          d |-> d, w |-> w, r |-> r]
    ELSE IF ~(Len(d) + Len(tl_t) < Get(tl).mt)
    THEN [err |-> Nil, d |-> d, w |-> w, r |-> r]
    ELSE LET d1 == IF ~IsNone(r)
                   THEN TableSet(d, Len(d) + 1, Get(p) \o <<Get(r)[1]>>)
                   ELSE TableSet(d, c - Len(tl_t) + 1, Get(p) \o <<Get(p)[1]>>)
             r1 == IF ~IsNone(r) THEN r ELSE TableGet(d1, c - Len(tl_t) + 1)
             w1 == IF Len(d1) + Len(tl_t) = Pow2(w) - 1 THEN w + 1 ELSE w
         IN  [err |-> Nil, d |-> d1, w |-> w1, r |-> r1]

\* Lines 78-109: the codes of one record.  st: d, w (_tl.w), a, bp, i, p,
\* reads (the <<code, width>> pairs read so far in this record), err.
RECURSIVE Phase1Codes(_)
Phase1Codes(st) ==
    IF st.err # Nil \/ ~(st.i > 0) THEN st
    ELSE Only({Phase1Codes(nx) : nx \in {Only({Only({
             [st EXCEPT !.a = rc.a, !.bp = rc.bp,
                        !.reads = Append(st.reads, <<rc.c, st.w>>),
                        !.err = g.err, !.d = g.d, !.w = g.w,
                        !.p = g.r, !.i = st.i - 1]
             : g \in {Grow(rc.c, st.p, Resolve(rc.c, st.d), st.d, st.w)}})
             : rc \in {ReadCode(st.a, st.bp, st.w, 1, 0)}})}})

\* Lines 73-115: the records.  st: d, w, a, n, reads (per record), err.
RECURSIVE Phase1Records(_)
Phase1Records(st) ==
    IF st.err # Nil \/ ~(st.n > 0) THEN st
    ELSE Only({Phase1Records([d |-> r.d, w |-> r.w,
                              a |-> IF r.bp # 0 THEN r.a + 1 ELSE r.a,
                              n |-> st.n - 1,
                              reads |-> Append(st.reads, r.reads),
                              err |-> r.err])
               : r \in {Phase1Codes([d |-> st.d, w |-> st.w, a |-> st.a + 5,
                                     bp |-> 0, i |-> peek16(st.a), p |-> None,
                                     reads |-> <<>>, err |-> Nil])}})

\* Lines 69-116.
Phase1(w) ==
    Phase1Records([d |-> <<>>, w |-> w, a |-> tl_a + 2, n |-> peek16(tl_a),
                   reads |-> <<>>, err |-> Nil])

\* An identifier read with its highest group first.
DecodeSidBigEndian(s, i) ==
    tl_o(s[i + 2]) + Pow2(sid_bits) * tl_o(s[i + 1])
                   + Pow2(2 * sid_bits) * tl_o(s[i])

\* Lines 120-122: the address an identifier of three characters stands for.
DecodeSid(s, i) ==
    tl_o(s[i]) + Pow2(sid_bits) * tl_o(s[i + 1])
               + Pow2(2 * sid_bits) * tl_o(s[i + 2])

\* Line 149: the width Phase 2 reads the next code with.
Phase2Width(tid, w) == IF tid = Pow2(w) THEN w + 1 ELSE w

\* Lines 130-152: the codes of one record in Phase 2.
\* st: a, bp, l, tid, w, r, reads, err.
RECURSIVE Phase2Codes(_, _)
Phase2Codes(d, st) ==
    IF st.err # Nil \/ ~(st.l > 0) THEN st
    ELSE Only({Phase2Codes(d, nx) : nx \in {Only({
             LET e == Resolve(rc.c, d)
             IN  IF IsNone(e)
                 THEN [st EXCEPT !.err = "attempt to concatenate a nil value",
                                 !.reads = Append(st.reads, <<rc.c, st.w>>)]
                 ELSE [st EXCEPT
                         !.a = rc.a, !.bp = rc.bp, !.l = st.l - 1,
                         !.r = st.r \o Get(e),
                         !.reads = Append(st.reads, <<rc.c, st.w>>),
                         !.tid = st.tid + 1,
                         !.w = Phase2Width(st.tid + 1, st.w)]
             : rc \in {ReadCode(st.a, st.bp, st.w, 1, 0)}})}})

\* Lines 118-154: one identifier after the other.  st: i, r, w, reads, err,
\* addrs (the address each identifier was decoded to).
RECURSIVE Phase2(_, _, _)
Phase2(s, d, st) ==
    IF st.err # Nil \/ st.i > Len(s) THEN st
    ELSE Only({Phase2(s, d, [i |-> st.i + 3, r |-> c.r, w |-> c.w,
                             reads |-> Append(st.reads, c.reads),
                             addrs |-> Append(st.addrs, DecodeSid(s, st.i)),
                             err |-> c.err])
               : c \in {LET a == DecodeSid(s, st.i)
                        IN  Phase2Codes(d, [a |-> a + 5, bp |-> 0,
                                            l |-> peek16(a),
                                            tid |-> peek16(a + 2),
                                            w |-> peek(a + 4), r |-> st.r,
                                            reads |-> <<>>, err |-> Nil])}})

\* function _t(s)
LuaTAfterPhase1(s, first, p1) ==
    IF p1.err # Nil
    THEN [err |-> p1.err, val |-> <<>>, d |-> Some(p1.d), w |-> p1.w,
          p1 |-> first, reads1 |-> p1.reads, reads2 |-> <<>>,
          addrs |-> <<>>]
    ELSE Only({[err |-> p2.err, val |-> p2.r, d |-> Some(p1.d), w |-> p2.w,
                p1 |-> first, reads1 |-> p1.reads, reads2 |-> p2.reads,
                addrs |-> p2.addrs]
               : p2 \in {Phase2(s, p1.d, [i |-> 1, r |-> <<>>, w |-> p1.w,
                                          reads |-> <<>>, addrs |-> <<>>,
                                          err |-> Nil])}})

LuaT(s, d0, w0) ==
    Only({LuaTAfterPhase1(s, IsNone(d0), p1)
          : p1 \in {IF IsNone(d0) THEN Phase1(w0)
                    ELSE [d |-> Get(d0), w |-> w0, n |-> 0, a |-> 0,
                          reads |-> <<>>, err |-> Nil]}})

(***************************************************************************)
(* tool.main, lines 102-139: the generated Lua is appended to the game's   *)
(* code and the bytes of as_bytes() are written into the cart from         *)
(* start_addr on.  as_bytes raising ends the tool without a cart.  cart is *)
(* the text as the decoder is meant to find it from _tl.a on; memmap is    *)
(* what the copy loop makes of the regions.                                *)
(***************************************************************************)
MakeCart ==
    /\ phase = "build"
    /\ string_id_map # <<>>
    /\ \E r \in {AsBytesResult(string_id_map, data)} :
           /\ r.exc = Nil
           /\ cart' = r.val
           /\ memmap' = CopyText(start_addr, r.val, memmap)
    /\ phase' = "run"
    /\ tl_d' = None
    /\ tl_w' = LZW_STARTING_WIDTH
    /\ UNCHANGED <<cap_growth, word_log, sid_bits, tokens, textlib,
                   start_addr, end_addr, string_id_map, data, dict,
                   code_width, code_bit_pos, code_buffer, ret, packed, calls,
                   lua, runVars>>

\* The identifiers the game's code holds: those id_for_string returned.
Sids == {string_id_map[i][2] : i \in 1..Len(string_id_map)}

SidArgs == Sids \cup {x \o y : x \in Sids, y \in Sids}

\* The game calls _t(s).
CallT(s) ==
    /\ phase = "run"
    /\ lua.n < MaxDecodes
    /\ lua.err = Nil
    /\ \E r \in {LuaT(s, tl_d, tl_w)} :
           /\ tl_d' = r.d
           /\ tl_w' = r.w
           /\ lua' = [n |-> lua.n + 1, err |-> r.err, arg |-> s,
                      val |-> r.val, p1 |-> r.p1,
                      reads |-> IF r.p1 THEN r.reads1 ELSE lua.reads,
                      addrs |-> r.addrs, reads2 |-> r.reads2]
    /\ UNCHANGED <<cap_growth, memmap, word_log, sid_bits, tokens, textlib,
                   start_addr, end_addr, string_id_map, data, dict,
                   code_width, code_bit_pos, code_buffer, ret, packed, calls,
                   phase, cart, runVars>>

Next ==
    \/ \E raw \in Inputs : IdForString(raw)
    \/ AsBytes
    \/ MakeCart
    \/ \E s \in SidArgs : CallT(s)

Spec == Init /\ [][Next]_vars

(***************************************************************************)
(* tool.main, lines 88-100: the scan of the lexer's tokens.  A token is a  *)
(* record of its class and its value.  id_for_string raising ends main.    *)
(***************************************************************************)
TokSymbol(v) == [type |-> "TokSymbol", value |-> v]

TokString(v) == [type |-> "TokString", value |-> v]

TokSpace(v) == [type |-> "TokSpace", value |-> v]

\* token.matches(other) for a token other: same class and same value.
Matches(token, other) ==
    token.type = other.type /\ token.value = other.value

\* token.matches(cls) for a class cls.
MatchesClass(token, cls) == token.type = cls

\* A star that is remembered across any token that is not a string.
SawStarKept(saw_star) == saw_star

\* Lines 99-100: what saw_star becomes at any other token.
SawStarElse(saw_star) == FALSE

\* Lines 95-98, with the fields of my_textlib in st.
ScanString(st, i) ==
    Only({ IF r.exc # Nil
           THEN [st EXCEPT !.exc = r.exc, !.map = r.map, !.data = r.data,
                           !.dict = r.dict, !.w = r.w, !.bp = r.bp,
                           !.buf = r.buf, !.calls = st.calls + 1]
           ELSE [st EXCEPT !.map = r.map, !.data = r.data, !.dict = r.dict,
                           !.w = r.w, !.bp = r.bp, !.buf = r.buf,
                           !.calls = st.calls + 1,
                           !.packed = IF IsNone(r.log) THEN st.packed
                                      ELSE Append(st.packed, Get(r.log)),
                           !.tokens = [st.tokens EXCEPT
                                         ![i - 1] = TokSpace(<<>>),
                                         ![i] = TokString(r.val)],
                           !.saw_star = FALSE,
                           !.i = i + 1]
           : r \in {IdForStringResult(st.tokens[i].value, st.map, st.data,
                                       st.dict, st.w, st.bp, st.buf)} })

\* Lines 91-100: the loop from token i (1-based) on.
RECURSIVE ScanFrom(_)
ScanFrom(st) ==
    IF st.exc # Nil \/ st.i > Len(st.tokens) THEN st
    ELSE Only({ScanFrom(nx) : nx \in {
           IF Matches(st.tokens[st.i], TokSymbol(<<"*">>))
           THEN [st EXCEPT !.saw_star = TRUE, !.i = st.i + 1]
           ELSE IF MatchesClass(st.tokens[st.i], "TokString") /\ st.saw_star
           THEN ScanString(st, st.i)
           ELSE [st EXCEPT !.saw_star = SawStarElse(st.saw_star),
                           !.i = st.i + 1] }})

TokenAlphabet ==
    { TokSymbol(<<"*">>), TokSymbol(<<"+">>), TokSpace(<<" ">>),
      TokString(<<"a">>), TokString(<<"b", " ", "\n", "A">>),
      TokString(<<"$">>) }

MaxTokens == 4

TokenLists == UNION { [1..n -> TokenAlphabet] : n \in 0..MaxTokens }

InitMain ==
    /\ sid_bits = SidBits
    /\ cap_growth = CapGrowth
    /\ tokens \in TokenLists
    /\ textlib = None
    /\ start_addr \in StartAddrs
    /\ Fresh

MainScan ==
    /\ phase = "build"
    /\ ret.op = "init"
    /\ \E r \in {ScanFrom([i |-> 1, saw_star |-> FALSE, tokens |-> tokens,
                             map |-> string_id_map, data |-> data,
                             dict |-> dict, w |-> code_width,
                             bp |-> code_bit_pos, buf |-> code_buffer,
                             packed |-> packed, calls |-> calls,
                             exc |-> Nil])} :
           /\ tokens' = r.tokens
           /\ string_id_map' = r.map
           /\ data' = r.data
           /\ dict' = r.dict
           /\ code_width' = r.w
           /\ code_bit_pos' = r.bp
           /\ code_buffer' = r.buf
           /\ packed' = r.packed
           /\ calls' = r.calls
           /\ ret' = [op |-> "main", arg |-> Some(tokens), exc |-> r.exc,
                      val |-> None, hit |-> FALSE, steps |-> <<>>]
           /\ phase' = IF r.exc # Nil THEN "failed" ELSE "build"
    /\ UNCHANGED <<cap_growth, memmap, word_log, sid_bits, textlib,
                   start_addr, end_addr, cart, tl_d, tl_w, lua, runVars>>

NextMain ==
    \/ MainScan
    \/ MakeCart
    \/ \E s \in SidArgs : CallT(s)

SpecMain == InitMain /\ [][NextMain]_vars

(***************************************************************************)
(* textlib.py: TextLib, the word-table packer that LzwLib replaces.  Its   *)
(* character table is scaled to seven characters, so that an identifier    *)
(* character holds TextSidBits bits.  A Python value that a method returns *)
(* is a record named after its type.                                       *)
(***************************************************************************)
TEXTLIB_CHAR_TABLE == <<" ", "!", "'", "?", "a", "b", "c">>

TextSidBits == 3

WordChars == {"a", "b", "c", "A", "B", "T", "t", "'"}

PyStr(s) == [str |-> s]

PyInt(n) == [int |-> n]

\* textlib.encode_pscii: the indexes of the lowered characters, or the
\* ValueError of CHAR_TABLE.index.
TextLibEncodePscii(s) ==
    IF \A k \in 1..Len(s) : InSeq(LowerChar(s[k]), TEXTLIB_CHAR_TABLE)
    THEN [exc |-> Nil,
          val |-> [k \in 1..Len(s) |->
                     IndexOf(LowerChar(s[k]), TEXTLIB_CHAR_TABLE)]]
    ELSE [exc |-> "ValueError", val |-> <<>>]

\* A word shorter than the prefix that is left as short as it is.
ZerosNone(n) == <<>>

\* Line 237: b'\\x00' * n.
Zeros(n) == [k \in 1..n |-> 0]

\* _encode_word after its first line, e being what encode_pscii gave.
TextLibAddWord(e, T) ==
    LET pl == T.prefix_length
        short == Len(e.val) <= pl
        prefix == IF short THEN e.val \o Zeros(pl - Len(e.val))
                  ELSE SubSeq(e.val, 1, pl)
        suffix == IF short THEN <<>> ELSE SubSeq(e.val, pl + 1, Len(e.val))
        known == HasKey(T.word_lib, prefix)
        prefix_lst == IF known THEN T.prefix_lst
                      ELSE Append(T.prefix_lst, prefix)
        prefix_id == IF known THEN IndexOf(prefix, T.prefix_lst)
                     ELSE Len(prefix_lst) - 1
        word_lib == IF known THEN T.word_lib
                    ELSE Append(T.word_lib, <<prefix, <<>> >>)
        at == CHOOSE i \in 1..Len(word_lib) : word_lib[i][1] = prefix
        old == InSeq(suffix, word_lib[at][2])
        suffixes == IF old THEN word_lib[at][2]
                    ELSE Append(word_lib[at][2], suffix)
        suffix_id == IF old THEN IndexOf(suffix, suffixes)
                     ELSE Len(suffixes) - 1
    IN  IF e.exc # Nil THEN [exc |-> e.exc, val |-> <<>>, T |-> T]
        ELSE IF ~known /\ prefix_id > 127
        THEN [exc |-> "TooManyWordsForPrefixError", val |-> <<>>,
              T |-> [T EXCEPT !.prefix_lst = prefix_lst]]
        ELSE IF ~old /\ suffix_id > 255
        THEN [exc |-> "TooManyWordsForPrefixError", val |-> <<>>,
              T |-> [T EXCEPT !.prefix_lst = prefix_lst,
                              !.word_lib = [word_lib EXCEPT
                                              ![at] = <<prefix, suffixes>>]]]
        ELSE [exc |-> Nil,
              val |-> <<OrBit(prefix_id, 1, 7), suffix_id>>,
              T |-> [T EXCEPT !.prefix_lst = prefix_lst,
                              !.word_lib = [word_lib EXCEPT
                                              ![at] = <<prefix, suffixes>>]]]

\* _encode_word on the library T: the bytes, and T with the word added.
TextLibEncodeWord(w, T) ==
    Only({TextLibAddWord(e, T) : e \in {TextLibEncodePscii(w)}})

\* _WORD.match(s[s_i:]): the end of the run of word characters at s_i
\* (0-based), s_i itself when there is none.
RECURSIVE WordEnd(_, _)
WordEnd(s, s_i) ==
    IF s_i < Len(s) /\ s[s_i + 1] \in WordChars THEN WordEnd(s, s_i + 1)
    ELSE s_i

\* _encode_string from position st.s_i on.
RECURSIVE TextLibEncodeStringFrom(_, _)
TextLibEncodeStringFrom(s, st) ==
    IF st.exc # Nil \/ ~(st.s_i < Len(s)) THEN st
    ELSE Only({TextLibEncodeStringFrom(s, nx) : nx \in {
           IF s[st.s_i + 1] = " "
           THEN [st EXCEPT !.s_i = st.s_i + 1]
           ELSE IF WordEnd(s, st.s_i) = st.s_i
           THEN Only({ IF e.exc # Nil THEN [st EXCEPT !.exc = e.exc]
                       ELSE [st EXCEPT !.result = st.result \o e.val,
                                       !.s_i = st.s_i + 1]
                       : e \in {TextLibEncodePscii(<<s[st.s_i + 1]>>)} })
           ELSE Only({ IF e.exc # Nil
                       THEN [st EXCEPT !.exc = e.exc, !.T = e.T]
                       ELSE [st EXCEPT !.result = st.result \o e.val,
                                       !.T = e.T,
                                       !.s_i = WordEnd(s, st.s_i)]
                       : e \in {TextLibEncodeWord(
                                   Slice(s, st.s_i, WordEnd(s, st.s_i)),
                                   st.T)} }) }})

TextLibEncodeString(s, T) ==
    TextLibEncodeStringFrom(s, [s_i |-> 0, result |-> <<>>, exc |-> Nil,
                                T |-> T])

\* _encode_string_id: three characters of TextSidBits bits each.
TextLibEncodeStringId(id) ==
    LET ct == TEXTLIB_CHAR_TABLE \o <<"@">>
        w1 == id % Pow2(TextSidBits)
        w2 == (id \div Pow2(TextSidBits)) % Pow2(TextSidBits)
        w3 == (id \div Pow2(2 * TextSidBits)) % Pow2(TextSidBits)
    IN  <<ct[w1 + 1], ct[w2 + 1], ct[w3 + 1]>>

\* Lines 314-317 for a string s that is not in the library, e being what
\* _encode_string gave, and line 317 alone for one that is.
TextLibStore(s, T, e) ==
    IF e.exc # Nil THEN [exc |-> e.exc, hit |-> FALSE, T |-> e.T, val |-> None]
    ELSE [exc |-> Nil,
          hit |-> FALSE,
          T |-> [e.T EXCEPT
                   !.string_lib_lst = Append(T.string_lib_lst, e.result),
                   !.string_lib_map = Append(T.string_lib_map,
                                             <<s, Len(T.string_lib_lst)>>)],
          val |-> Some(PyStr(TextLibEncodeStringId(Len(T.string_lib_lst))))]

TextLibFound(s, T) ==
    [exc |-> Nil, hit |-> TRUE, T |-> T,
     val |-> Some(PyStr(TextLibEncodeStringId(Lookup(T.string_lib_map, s))))]

\* TextLib.id_for_string: the value returned and the library afterwards.
TextLibIdForStringResult(raw, T) ==
    Only({ IF HasKey(T.string_lib_map, s) THEN TextLibFound(s, T)
           ELSE Only({TextLibStore(s, T, e)
                      : e \in {TextLibEncodeString(s, T)}})
           : s \in {CollapseWs(raw)} })

\* bytearray.extend over a list of byte strings.
RECURSIVE Flatten(_)
Flatten(q) == IF q = <<>> THEN <<>> ELSE Head(q) \o Flatten(Tail(q))

\* v & 255, v >> 8.
Le16(v) == <<v % 256, v \div 256>>

\* A jump table that leaves out the entry past the last string.
StringTableOffsetNoEnd(n) == 3 + 2 * n

\* Line 361: string_table_offset for n strings.
StringTableOffset(n) == 3 + 2 * n + 2

\* Lines 372-378: the entry of prefix p, self._word_lib being a defaultdict.
WordEntry(p, word_lib) ==
    LET suffixes == IF HasKey(word_lib, p) THEN Lookup(word_lib, p) ELSE <<>>
    IN  p \o Flatten([k \in 1..Len(suffixes) |-> suffixes[k] \o <<0>>])

\* TextLib.as_bytes: the bytes, or the exception of an offset of 65536 or
\* more.
TextLibAsBytesResult(T) ==
    LET n == Len(T.string_lib_lst)
        string_data == Flatten(T.string_lib_lst)
        string_offset_list ==
            [k \in 1..(n + 1) |-> Len(Flatten(SubSeq(T.string_lib_lst, 1, k - 1)))]
        string_table_offset == StringTableOffset(n)
        string_jump_tbl ==
            Flatten([k \in 1..(n + 1) |->
                       Le16(string_table_offset + string_offset_list[k])])
        entries == [k \in 1..Len(T.prefix_lst) |->
                      WordEntry(T.prefix_lst[k], T.word_lib)]
        lookup_data == Flatten(entries)
        lookup_offset_list ==
            [k \in 1..Len(T.prefix_lst) |->
               Len(Flatten(SubSeq(entries, 1, k - 1)))]
        lookup_table_offset ==
            3 + Len(string_jump_tbl) + Len(string_data) + 2 * Len(T.prefix_lst)
        lookup_prefix_tbl ==
            Flatten([k \in 1..Len(T.prefix_lst) |->
                       Le16(lookup_table_offset + lookup_offset_list[k])])
    IN  IF \/ \E k \in 1..(n + 1) :
                 string_table_offset + string_offset_list[k] >= 65536
           \/ \E k \in 1..Len(T.prefix_lst) :
                 lookup_table_offset + lookup_offset_list[k] >= 65536
        THEN [exc |-> "TooManyWordsForPrefixError", val |-> None]
        ELSE [exc |-> Nil,
              val |-> Some(<<T.prefix_length, n % 256, n \div 256>>
                           \o string_jump_tbl \o string_data
                           \o lookup_prefix_tbl \o lookup_data)]

TextLibNew(prefix_length) ==
    [prefix_lst |-> <<>>, word_lib |-> <<>>, string_lib_map |-> <<>>,
     string_lib_lst |-> <<>>, prefix_length |-> prefix_length]

PrefixLengths == {1, 2}

TextInputs ==
    { <<"a", "b">>, <<"a", "b", "c", " ", "a", "b">>, <<"A", "b">>,
      <<"a", " ", "\n", "b">>, <<"a", " ", "b">>, <<"b", "!">>, <<"$">>,
      <<"a", "$">> }

InitText ==
    /\ sid_bits = SidBits
    /\ cap_growth = CapGrowth
    /\ tokens = <<>>
    /\ start_addr \in StartAddrs
    /\ Fresh
    /\ textlib \in { Some(TextLibNew(n)) : n \in PrefixLengths }

TextLibIdForString(raw) ==
    /\ calls < MaxCalls
    /\ \E r \in {TextLibIdForStringResult(raw, Get(textlib))} :
           /\ textlib' = Some(r.T)
           /\ ret' = [op |-> "TextLib.id_for_string", arg |-> Some(raw),
                      exc |-> r.exc, val |-> r.val, hit |-> r.hit,
                      steps |-> <<>>]
    /\ calls' = calls + 1
    /\ UNCHANGED <<cap_growth, memmap, word_log, sid_bits, tokens, start_addr,
                   end_addr, string_id_map, data, dict, code_width,
                   code_bit_pos, code_buffer, packed, phase, cart, tl_d, tl_w,
                   lua, runVars>>

TextLibAsBytes ==
    /\ \E r \in {TextLibAsBytesResult(Get(textlib))} :
           ret' = [op |-> "TextLib.as_bytes", arg |-> None, exc |-> r.exc,
                   val |-> r.val, hit |-> FALSE, steps |-> <<>>]
    /\ UNCHANGED <<cap_growth, memmap, word_log, sid_bits, tokens, textlib,
                   start_addr, end_addr, string_id_map, data, dict,
                   code_width, code_bit_pos, code_buffer, packed, calls,
                   phase, cart, tl_d, tl_w, lua, runVars>>

NextText ==
    \/ \E raw \in TextInputs : TextLibIdForString(raw)
    \/ TextLibAsBytes

\* Calls of _encode_word itself, as the tests make them.
MaxWords == 4

WordInputs ==
    { <<"a">>, <<"a", "b">>, <<"a", "b", "c">>, <<"a", "c">>, <<"A", "b">>,
      <<"b", "a", "'">>, <<"b", "$">> }

InitWord ==
    /\ sid_bits = SidBits
    /\ cap_growth = CapGrowth
    /\ tokens = <<>>
    /\ start_addr = 0
    /\ Fresh
    /\ textlib \in { Some(TextLibNew(n)) : n \in PrefixLengths }

EncodeWord(w) ==
    /\ Len(word_log) < MaxWords
    /\ \E r \in {TextLibEncodeWord(w, Get(textlib))} :
           /\ textlib' = Some(r.T)
           /\ ret' = [op |-> "TextLib._encode_word", arg |-> Some(w),
                      exc |-> r.exc, val |-> Some(r.val), hit |-> FALSE,
                      steps |-> <<>>]
           /\ word_log' = Append(word_log,
                                 [w |-> w, exc |-> r.exc, val |-> r.val])
    /\ UNCHANGED <<cap_growth, memmap, sid_bits, tokens, start_addr, end_addr,
                   string_id_map, data, dict, code_width, code_bit_pos,
                   code_buffer, packed, calls, phase, cart, tl_d, tl_w, lua,
                   runVars>>

NextWord == \E w \in WordInputs : EncodeWord(w)

SpecWord == InitWord /\ [][NextWord]_vars

SpecText == InitText /\ [][NextText]_vars

(***************************************************************************)
(* A specification at a larger scale, with an alphabet that holds the      *)
(* letters of short English phrases: strings are added to a fresh encoder. *)
(***************************************************************************)
ExampleSidBits == SidBits + 2

TheCatSat == <<"t", "h", "e", " ", "c", "a", "t", " ", "s", "a", "t">>

TheDogSat == <<"t", "h", "e", " ", "d", "o", "g", " ", "s", "a", "t">>

ExampleInputs ==
    { TheCatSat, TheDogSat, <<"t", "h", "e">>, <<"s", "a", "t">>,
      <<"T", "h", "e", "\n", "c", "a", "t">> }

InitExample ==
    /\ sid_bits = ExampleSidBits
    /\ cap_growth = CapGrowth
    /\ tokens = <<>>
    /\ textlib = None
    /\ start_addr \in StartAddrs
    /\ Fresh

NextExample == \E raw \in ExampleInputs : IdForString(raw)

SpecExample == InitExample /\ [][NextExample]_vars

(***************************************************************************)
(* A specification with two encoders: calls are made on a first LzwLib,    *)
(* then a second LzwLib is constructed with the same start address and any *)
(* end address, and the same calls are made on it in the same order.       *)
(***************************************************************************)
TwinInputs == { <<"a">>, <<"A">>, <<"a", " ", "b">>, <<"a", "$">> }

Called(op, arg, r) == [op |-> op, arg |-> arg, exc |-> r.exc, val |-> r.val]

FirstIdForString(raw) ==
    /\ IsNone(second_run)
    /\ calls < MaxCalls
    /\ IdForStringCall(raw)
    /\ first_run' = Append(first_run, Called("id_for_string", raw, ret'))
    /\ UNCHANGED second_run

FirstAsBytes ==
    /\ IsNone(second_run)
    /\ ret.op = "id_for_string"
    /\ AsBytesCall
    /\ first_run' = Append(first_run, Called("as_bytes", None, ret'))
    /\ UNCHANGED second_run

\* LzwLib(start_addr, e): __init__ on a new object.
NewEncoder(e) ==
    /\ IsNone(second_run)
    /\ first_run # <<>>
    /\ end_addr' = e
    /\ string_id_map' = <<>>
    /\ data' = <<>>
    /\ dict' = [i \in 1..Len(CHAR_TABLE) |-> <<CHAR_TABLE[i]>>]
    /\ code_width' = LZW_STARTING_WIDTH
    /\ code_bit_pos' = 0
    /\ code_buffer' = None
    /\ ret' = [op |-> "init", arg |-> None, exc |-> Nil, val |-> None,
               hit |-> FALSE, steps |-> <<>>]
    /\ packed' = <<>>
    /\ calls' = 0
    /\ second_run' = Some(<<>>)
    /\ UNCHANGED <<cap_growth, memmap, word_log, sid_bits, tokens, textlib,
                   start_addr, phase, cart, tl_d, tl_w, lua, first_run>>

SecondIdForString ==
    /\ ~IsNone(second_run)
    /\ Len(Get(second_run)) < Len(first_run)
    /\ LET c == first_run[Len(Get(second_run)) + 1]
       IN  /\ c.op = "id_for_string"
           /\ IdForStringCall(c.arg)
           /\ second_run' = Some(Append(Get(second_run),
                                        Called(c.op, c.arg, ret')))
    /\ UNCHANGED first_run

SecondAsBytes ==
    /\ ~IsNone(second_run)
    /\ Len(Get(second_run)) < Len(first_run)
    /\ LET c == first_run[Len(Get(second_run)) + 1]
       IN  /\ c.op = "as_bytes"
           /\ AsBytesCall
           /\ second_run' = Some(Append(Get(second_run),
                                        Called(c.op, c.arg, ret')))
    /\ UNCHANGED first_run

NextTwin ==
    \/ \E raw \in TwinInputs : FirstIdForString(raw)
    \/ FirstAsBytes
    \/ \E n \in Windows : NewEncoder(start_addr + n)
    \/ SecondIdForString
    \/ SecondAsBytes

SpecTwin == Init /\ [][NextTwin]_vars

(***************************************************************************)
(* lzwlib.encode_pscii and the exception class it raises.  Keyword         *)
(* arguments are a function from names to values; args are the positional  *)
(* arguments.                                                              *)
(***************************************************************************)
NoKwargs == [name \in {} |-> None]

\* kwargs.get(name)
KwGet(kwargs, name) ==
    IF name \in DOMAIN kwargs THEN Some(kwargs[name]) ELSE None

\* CharOutOfRange.__init__(self, *args, **kwargs)
CharOutOfRange(args, kwargs) ==
    [char |-> KwGet(kwargs, "char"), pos |-> KwGet(kwargs, "pos"),
     args |-> args]

\* The loop of encode_pscii from position i (0-based) on.
RECURSIVE PsciiFrom(_, _, _)
PsciiFrom(lower_s, i, result) ==
    IF i = Len(lower_s) THEN [exc |-> Nil, val |-> Some(result)]
    ELSE IF ~InSeq(lower_s[i + 1], CHAR_TABLE)
    THEN [exc |-> "CharOutOfRange",
          val |-> Some(CharOutOfRange(<<lower_s[i + 1], i>>, NoKwargs))]
    ELSE PsciiFrom(lower_s, i + 1,
                   Append(result, IndexOf(lower_s[i + 1], CHAR_TABLE)))

encode_pscii(s) == PsciiFrom(Lower(s), 0, <<>>)

PsciiChars == {"a", "b", "A", " ", "$"}

PsciiInputs ==
    UNION { [1..n -> PsciiChars] : n \in 0..3 }

EncodePscii(s) ==
    /\ \E r \in {encode_pscii(s)} :
           ret' = [op |-> "encode_pscii", arg |-> s, exc |-> r.exc,
                   val |-> r.val, hit |-> FALSE, steps |-> <<>>]
    /\ UNCHANGED <<cap_growth, memmap, word_log, sid_bits, tokens, textlib,
                   start_addr, end_addr, string_id_map, data, dict,
                   code_width, code_bit_pos, code_buffer, packed, calls,
                   phase, cart, tl_d, tl_w, lua, runVars>>

NextPscii == \E s \in PsciiInputs : EncodePscii(s)

SpecPscii == Init /\ [][NextPscii]_vars

(***************************************************************************)
(* A second specification for long corpora: the strings of LongCorpus are  *)
(* added to a fresh encoder in their order, any of them left out.          *)
(***************************************************************************)
LongCorpus ==
    << <<>>, <<"a">>, <<"b">>, <<"a", "a">>, <<"b", "a">>, <<"b", "b">>,
       <<"a", "b", "a", "b">>, <<"b", "a", "b", "a">>,
       <<"a", "a", "b", "b">>, <<"b", "b", "a", "a">>,
       <<"a", "b", "b", "a">>, <<"b", "a", "a", "b">>,
       <<"a", " ", "b">>, <<"b", " ", "a">> >>

AddInOrder(k) ==
    /\ \A j \in 1..Len(LongCorpus) :
          (ret.op = "id_for_string" /\ ret.arg = LongCorpus[j]) => j < k
    /\ IdForStringCall(LongCorpus[k])
    /\ UNCHANGED runVars

NextLong == \E k \in 1..Len(LongCorpus) : AddInOrder(k)

\* The encoder with a dictionary that may grow one bit further, as the
\* program's may grow five bits beyond its start width.
InitWide ==
    /\ sid_bits = SidBits
    /\ cap_growth = CapGrowth + 1
    /\ tokens = <<>>
    /\ textlib = None
    /\ start_addr \in StartAddrs
    /\ Fresh

NextWide == \E raw \in Inputs : IdForString(raw)

SpecWide == InitWide /\ [][NextWide]_vars

SpecLong == Init /\ [][NextLong]_vars

(***************************************************************************)
(* A third specification for the identifier codec: the data may start at   *)
(* any address an identifier can carry, short strings are added, and the   *)
(* game decodes their identifiers.                                         *)
(***************************************************************************)
SidStartAddrs == 0..(Pow2(3 * SidBits) - 3)

SidInputs == { <<>>, <<"a">> }

InitSid ==
    /\ sid_bits = SidBits
    /\ cap_growth = CapGrowth
    /\ tokens = <<>>
    /\ textlib = None
    /\ start_addr \in SidStartAddrs
    /\ Fresh

NextSid ==
    \/ \E raw \in SidInputs : IdForString(raw)
    \/ MakeCart
    \/ \E s \in SidArgs : CallT(s)

SpecSid == InitSid /\ [][NextSid]_vars

(***************************************************************************)
(* What the claims speak of, stated apart from the code.                   *)
(***************************************************************************)
\* The normalized form of a string: lower-cased, every whitespace run one
\* space.  Character k is kept unless it and its predecessor are whitespace.
Blank(c) == c \in {" ", "\n", "\t"}

LowerCase(c) ==
    IF c = "A" THEN "a" ELSE IF c = "B" THEN "b" ELSE IF c = "T" THEN "t" ELSE c

RECURSIVE NormalFrom(_, _)
NormalFrom(s, k) ==
    IF k > Len(s) THEN <<>>
    ELSE IF Blank(s[k]) /\ k > 1 /\ Blank(s[k - 1]) THEN NormalFrom(s, k + 1)
    ELSE <<IF Blank(s[k]) THEN " " ELSE LowerCase(s[k])>> \o NormalFrom(s, k + 1)

NormalForm(s) == NormalFrom(s, 1)

IsAlphabetString(s) == \A k \in 1..Len(s) : InSeq(s[k], CHAR_TABLE)

\* The key whose identifier is the token at s[i..i+2], and the text a
\* sequence of tokens stands for.
KeyOfSid(tok) ==
    string_id_map[CHOOSE i \in 1..Len(string_id_map) :
                     string_id_map[i][2] = tok][1]

RECURSIVE ExpectedText(_, _)
ExpectedText(s, i) ==
    IF i > Len(s) THEN <<>>
    ELSE KeyOfSid(SubSeq(s, i, i + 2)) \o ExpectedText(s, i + 3)

WidthsOf(q) == [k \in 1..Len(q) |-> q[k][2]]

LastRecord == packed[Len(packed)]

IdCallStep == calls' = calls + 1

(***************************************************************************)
(* C1.  Round trip: for strings of alphabet characters added to a fresh    *)
(* LzwLib, the decoder run on as_bytes() (Phase 1 over the corpus, then    *)
(* Phase 2 on an identifier) returns the normalized form of the string.    *)
(* As stated: every _t call returns, and returns the normalized strings of *)
(* the identifiers it was given.                                           *)
(***************************************************************************)
C1_RoundTrip ==
    (lua.n > 0 /\ \A i \in 1..Len(string_id_map) :
                     IsAlphabetString(string_id_map[i][1]))
    => (lua.err = Nil /\ lua.val = ExpectedText(lua.arg, 1))

(***************************************************************************)
(* C2.  Width lock-step: in Phase 1 the decoder reads the k-th code of     *)
(* every record at the width the encoder packed it with, for every k.      *)
(***************************************************************************)
C2_WidthLockStep ==
    lua.n > 0 =>
        /\ Len(lua.reads) = Len(packed)
        /\ \A j \in 1..Len(packed) :
              WidthsOf(lua.reads[j]) = WidthsOf(packed[j].codes)

(***************************************************************************)
(* C3.  After Phase 1 the decoder's overflow table holds, in order, the    *)
(* multi-character entries of the encoder's dictionary: overflow entry i   *)
(* is the encoder entry with code alphabet_size + i.                       *)
(***************************************************************************)
C3_OverflowTable ==
    lua.n > 0 =>
        /\ Len(Get(tl_d)) = Len(dict) - Len(CHAR_TABLE)
        /\ \A i \in 1..Len(Get(tl_d)) :
              Get(tl_d)[i] = Some(dict[Len(CHAR_TABLE) + i])

(***************************************************************************)
(* C4.  The decoder reads only parameters generate_lua defines, so Phase 1 *)
(* never stops on an undefined one and reads every code of every record.   *)
(***************************************************************************)
C4_ParametersDefined ==
    lua.n > 0 =>
        /\ lua.err # "attempt to index global 'tl' (a nil value)"
        /\ Len(lua.reads) = Len(packed)
        /\ \A j \in 1..Len(packed) :
              Len(lua.reads[j]) = Len(packed[j].codes)

(***************************************************************************)
(* C5.  Idempotence: id_for_string on a string whose normalized form was   *)
(* already assigned an identifier returns that identifier (the one the     *)
(* first call returned and cached) and leaves the dictionary, the code     *)
(* width, the record data and the identifier cache unchanged.              *)
(***************************************************************************)
C5_Idempotent ==
    [][ IdCallStep =>
          /\ SubSeq(string_id_map', 1, Len(string_id_map)) = string_id_map
          /\ (ret'.exc = Nil /\ ~ret'.hit) =>
                string_id_map' =
                    Append(string_id_map, <<NormalForm(ret'.arg), ret'.val>>)
          /\ HasKey(string_id_map, NormalForm(ret'.arg)) =>
                /\ ret'.exc = Nil
                /\ ret'.val = Lookup(string_id_map, NormalForm(ret'.arg))
                /\ UNCHANGED <<dict, code_width, data, string_id_map>> ]_vars

C5_Witness ==
    /\ ret.op = "id_for_string"
    /\ ret.exc = Nil
    /\ ret.hit
    /\ ret.arg = <<"a", " ", "\n", "b">>
    /\ ret.val = Lookup(string_id_map, <<"a", " ", "b">>)

(***************************************************************************)
(* C6.  id_for_string on a string whose normalized form has a character    *)
(* outside the alphabet fails with CharOutOfRange, and no record and no    *)
(* identifier are created for that string.                                 *)
(***************************************************************************)
C6_CharOutOfRange ==
    (ret.op = "id_for_string" /\ ~IsAlphabetString(NormalForm(ret.arg)))
    => /\ ret.exc = "CharOutOfRange"
       /\ ~HasKey(string_id_map, NormalForm(ret.arg))

(***************************************************************************)
(* C7.  When id_for_string fails, the dictionary, the code width, the      *)
(* record data and the identifier cache are what they were before the call.*)
(***************************************************************************)
C7_FailureLeavesState ==
    [][ (IdCallStep /\ ret'.exc # Nil)
        => UNCHANGED <<dict, code_width, data, string_id_map>> ]_vars

(***************************************************************************)
(* C8.  The dictionary never holds more than MAX_TABLE_ENTRY_COUNT         *)
(* entries; once it holds that many, id_for_string on an alphabet string   *)
(* still succeeds, inserts no entry and emits only codes of entries that   *)
(* exist.                                                                  *)
(***************************************************************************)
C8_CapacityCeiling ==
    [][ /\ Len(dict) <= MAX_TABLE_ENTRY_COUNT
        /\ Len(dict') <= MAX_TABLE_ENTRY_COUNT
        /\ ( /\ IdCallStep
             /\ Len(dict) = MAX_TABLE_ENTRY_COUNT
             /\ IsAlphabetString(NormalForm(ret'.arg)) )
           => /\ ret'.exc = Nil
              /\ dict' = dict
              /\ ~ret'.hit =>
                    /\ Len(packed') = Len(packed) + 1
                    /\ \A k \in 1..Len(packed'[Len(packed')].codes) :
                          packed'[Len(packed')].codes[k][1] < Len(dict) ]_vars

C8_Witness ==
    /\ Len(dict) = MAX_TABLE_ENTRY_COUNT
    /\ ret.op = "id_for_string"
    /\ ret.exc = Nil
    /\ ~ret.hit
    /\ LastRecord.tid = MAX_TABLE_ENTRY_COUNT
    /\ Len(LastRecord.codes) >= 2

(***************************************************************************)
(* C9.  as_bytes raises TooMuchDataError exactly when 2 plus the length of *)
(* all records exceeds end_addr - start_addr; otherwise it returns the     *)
(* whole buffer: the count prefix followed by every record.                *)
(***************************************************************************)
C9_WindowEnforcement ==
    ret.op = "as_bytes" =>
        /\ (ret.exc = "TooMuchDataError")
              <=> (2 + Len(data) > end_addr - start_addr)
        /\ ret.exc # "TooMuchDataError" =>
              /\ ret.exc = Nil
              /\ ret.val = <<Len(string_id_map) % 256,
                             Len(string_id_map) \div 256>> \o data

C9_Witness ==
    /\ ret.op = "as_bytes"
    /\ ret.exc = "TooMuchDataError"
    /\ 2 + Len(data) = end_addr - start_addr + 1

(***************************************************************************)
(* C10.  No two distinct normalized strings in the cache have the same     *)
(* identifier, whatever the start address and the amount of record data.   *)
(***************************************************************************)
C10_DistinctIdentifiers ==
    \A i, j \in 1..Len(string_id_map) :
        i # j => string_id_map[i][2] # string_id_map[j][2]

(***************************************************************************)
(* C11.  The number an identifier token carries is start_addr + 2 + the    *)
(* byte length of all records created before it, and at that offset from   *)
(* start_addr the bytes of as_bytes() hold the header of that string's     *)
(* record.                                                                 *)
(***************************************************************************)
TokenValue(tok) ==
    IndexOf(tok[1], CHAR_TABLE_FOR_SID)
    + Pow2(sid_bits) * IndexOf(tok[2], CHAR_TABLE_FOR_SID)
    + Pow2(2 * sid_bits) * IndexOf(tok[3], CHAR_TABLE_FOR_SID)

RECURSIVE BitsOf(_)
BitsOf(codes) ==
    IF codes = <<>> THEN 0 ELSE Head(codes)[2] + BitsOf(Tail(codes))

RecordLen(rec) == 5 + (BitsOf(rec.codes) + 7) \div 8

RECURSIVE RecordsLen(_, _)
RecordsLen(recs, n) ==
    IF n = 0 THEN 0 ELSE RecordLen(recs[n]) + RecordsLen(recs, n - 1)

C11_TokenIsAddress ==
    \A j \in 1..Len(string_id_map) :
        LET off == 2 + RecordsLen(packed, j - 1)
        IN  /\ TokenValue(string_id_map[j][2]) = start_addr + off
            /\ SubSeq(<<Len(string_id_map) % 256, Len(string_id_map) \div 256>>
                         \o data, off + 1, off + 5)
                 = << Len(packed[j].codes) % 256, Len(packed[j].codes) \div 256,
                      packed[j].tid % 256, packed[j].tid \div 256,
                      packed[j].w >>

(***************************************************************************)
(* C12.  The first two bytes of as_bytes() hold, low byte first, the       *)
(* number of distinct normalized strings added; exactly that many records  *)
(* follow, and they follow in the order in which the identifiers were      *)
(* assigned: the j-th record carries the header and the codes of the j-th  *)
(* string, and its codes spell that string.                                *)
(***************************************************************************)
\* The n bits that start at bit b of the byte sequence q, lowest bit first.
RECURSIVE BitsAt(_, _, _)
BitsAt(q, b, n) ==
    IF n = 0 THEN 0
    ELSE Bit(q[(b \div 8) + 1], b % 8) + 2 * BitsAt(q, b + 1, n - 1)

RECURSIVE Spelled(_, _)
Spelled(codes, d) ==
    IF codes = <<>> THEN <<>>
    ELSE d[Head(codes)[1] + 1] \o Spelled(Tail(codes), d)

RecordAt(q, off, rec) ==
    /\ q[off + 1] + 256 * q[off + 2] = Len(rec.codes)
    /\ q[off + 3] + 256 * q[off + 4] = rec.tid
    /\ q[off + 5] = rec.w
    /\ \A k \in 1..Len(rec.codes) :
          BitsAt(q, 8 * (off + 5) + BitsOf(SubSeq(rec.codes, 1, k - 1)),
                 rec.codes[k][2]) = rec.codes[k][1]

C12_CountAndOrder ==
    (ret.op = "as_bytes" /\ ret.exc = Nil) =>
        /\ \A i, j \in 1..Len(string_id_map) :
              i # j => string_id_map[i][1] # string_id_map[j][1]
        /\ ret.val[1] + 256 * ret.val[2] = Len(string_id_map)
        /\ Len(packed) = Len(string_id_map)
        /\ Len(ret.val) = 2 + RecordsLen(packed, Len(packed))
        /\ \A j \in 1..Len(packed) :
              /\ RecordAt(ret.val, 2 + RecordsLen(packed, j - 1), packed[j])
              /\ Spelled(packed[j].codes, dict) = string_id_map[j][1]

C12_Witness ==
    /\ ret.op = "as_bytes"
    /\ ret.exc = Nil
    /\ Len(string_id_map) = 2
    /\ calls = 3
    /\ Len(packed[1].codes) >= 2

(***************************************************************************)
(* C13.  Decoding the three-character token the encoder makes for an       *)
(* offset n gives back n, for every n a token can carry; a character that  *)
(* is not in the decoder's alphabet, '@' included, decodes to the sentinel *)
(* (the last index of the identifier alphabet) and does not fail.  In the  *)
(* running cart: every identifier the game passes is decoded to the        *)
(* address the encoder made it for.                                        *)
(***************************************************************************)
ForeignChars ==
    {"@", "$", "A", "\n"} \cup
    {CharPool[k] : k \in (Len(CHAR_TABLE) + 1)..Len(CharPool)}

C14_WidthSchedule ==
    [][ /\ calls = 0 => code_width = LZW_STARTING_WIDTH
        /\ code_width' >= code_width
        /\ IdCallStep =>
              LET S == ret'.steps
              IN  /\ S = <<>> => code_width' = code_width
                  /\ S # <<>> => /\ S[1].w = code_width
                                 /\ S[Len(S)].w2 = code_width'
                  /\ \A k \in 1..(Len(S) - 1) : S[k + 1].w = S[k].w2
                  /\ \A k \in 1..Len(S) :
                        S[k].w2 = IF S[k].created = Some(Pow2(S[k].w) - 1)
                                  THEN S[k].w + 1
                                  ELSE S[k].w ]_vars

(***************************************************************************)
(* C15.  encode_pscii on a string with a character that, lower-cased, is   *)
(* not in the alphabet fails with a CharOutOfRange whose char is the first *)
(* such character and whose pos is its position; on a string of alphabet   *)
(* characters it returns the alphabet index of each character.             *)
(***************************************************************************)
FirstForeign(s) ==
    CHOOSE k \in 1..Len(s) :
        /\ ~InSeq(LowerCase(s[k]), CHAR_TABLE)
        /\ \A j \in 1..(k - 1) : InSeq(LowerCase(s[j]), CHAR_TABLE)

C15_EncodePscii ==
    ret.op = "encode_pscii" =>
        IF \A k \in 1..Len(ret.arg) : InSeq(LowerCase(ret.arg[k]), CHAR_TABLE)
        THEN /\ ret.exc = Nil
             /\ Get(ret.val) =
                    [k \in 1..Len(ret.arg) |->
                       IndexOf(LowerCase(ret.arg[k]), CHAR_TABLE)]
        ELSE /\ ret.exc = "CharOutOfRange"
             /\ Get(ret.val).char
                    = Some(LowerCase(ret.arg[FirstForeign(ret.arg)]))
             /\ Get(ret.val).pos = Some(FirstForeign(ret.arg) - 1)

(***************************************************************************)
(* C16.  as_bytes changes nothing in the encoder, whether it returns or    *)
(* raises TooMuchDataError; an as_bytes call that follows another with no  *)
(* id_for_string call between them gives the same result; and after a      *)
(* failed as_bytes, id_for_string still returns the identifiers assigned   *)
(* before it.                                                              *)
(***************************************************************************)
C16_AsBytesFrame ==
    [][ /\ ret'.op = "as_bytes" =>
              UNCHANGED <<dict, code_width, data, string_id_map,
                          code_bit_pos, code_buffer>>
        /\ (ret.op = "as_bytes" /\ ret'.op = "as_bytes") =>
              (ret'.exc = ret.exc /\ ret'.val = ret.val)
        /\ ( /\ ret.op = "as_bytes"
             /\ ret.exc = "TooMuchDataError"
             /\ IdCallStep
             /\ HasKey(string_id_map, NormalForm(ret'.arg)) ) =>
              /\ ret'.exc = Nil
              /\ ret'.val = Lookup(string_id_map, NormalForm(ret'.arg)) ]_vars

\* as_bytes has raised with two identifiers assigned, and a further
\* id_for_string call can follow.
C16_Witness ==
    /\ ret.op = "as_bytes"
    /\ ret.exc = "TooMuchDataError"
    /\ Len(string_id_map) = 2
    /\ calls < MaxCalls

CatThenDog ==
    /\ calls = 2
    /\ Len(string_id_map) = 2
    /\ string_id_map[1][1] = TheCatSat
    /\ string_id_map[2][1] = TheDogSat
    /\ ret.op = "id_for_string"
    /\ ret.arg = TheDogSat

\* The entries the last call inserted, in order, and the entries its codes
\* stand for (its matches).
InsertedBy(S) ==
    LET idx == SelectSeq([k \in 1..Len(S) |-> S[k].created],
                         LAMBDA c : ~IsNone(c))
    IN  [k \in 1..Len(idx) |-> dict[Get(idx[k]) + 1]]

MatchesOf(rec) == [k \in 1..Len(rec.codes) |-> dict[rec.codes[k][1] + 1]]

C18_SharedPatterns ==
    CatThenDog =>
        /\ InSeq(<<"t", "h", "e", " ">>, InsertedBy(ret.steps))
        /\ InSeq(<<" ", "s", "a", "t">>, InsertedBy(ret.steps))

(***************************************************************************)
(* C18, as the code has it.  The second string inserts "the", "e d", "do", *)
(* "og", "g " and " sa": each of its matches "th", "e " and " s" is an     *)
(* entry the first string inserted, one character longer than the first    *)
(* string's matches at those places, and the new entry is that match plus  *)
(* one character.                                                          *)
(***************************************************************************)
C18_SharedPatternsAmended ==
    CatThenDog =>
        /\ InsertedBy(ret.steps) =
              << <<"t", "h", "e">>, <<"e", " ", "d">>, <<"d", "o">>,
                 <<"o", "g">>, <<"g", " ">>, <<" ", "s", "a">> >>
        /\ MatchesOf(packed[2]) =
              << <<"t", "h">>, <<"e", " ">>, <<"d">>, <<"o">>, <<"g">>,
                 <<" ", "s">>, <<"a", "t">> >>
        /\ MatchesOf(packed[1]) =
              << <<"t">>, <<"h">>, <<"e">>, <<" ">>, <<"c">>, <<"a">>,
                 <<"t">>, <<" ">>, <<"s">>, <<"a", "t">> >>

C18_Witness ==
    /\ CatThenDog
    /\ ret.exc = Nil
    /\ Len(ret.steps) = 7

IsStar(tok) == tok.type = "TokSymbol" /\ tok.value = <<"*">>

StarredString(toks, i) ==
    i > 1 /\ toks[i].type = "TokString" /\ IsStar(toks[i - 1])

(***************************************************************************)
(* C19.  In the scan of tool.main a string token is replaced by the        *)
(* identifier of its text, and the star before it by an empty space token, *)
(* exactly when the token just before it is the symbol '*'; every other    *)
(* token is left as it was.                                                *)
(***************************************************************************)
C19_StarStrings ==
    (ret.op = "main" /\ ret.exc = Nil) =>
        LET before == Get(ret.arg)
        IN  /\ Len(tokens) = Len(before)
            /\ \A i \in 1..Len(before) :
                  IF StarredString(before, i)
                  THEN tokens[i] =
                         [type |-> "TokString",
                          value |-> Lookup(string_id_map,
                                           NormalForm(before[i].value))]
                  ELSE IF i < Len(before) /\ StarredString(before, i + 1)
                  THEN tokens[i] = [type |-> "TokSpace", value |-> <<>>]
                  ELSE tokens[i] = before[i]

\* A scan of '*', "a", ' ', "b \nA": the first string is replaced and its
\* star blanked, the second string, which follows a space, is left alone.
C19_Witness ==
    /\ ret.op = "main"
    /\ ret.exc = Nil
    /\ Get(ret.arg) = <<TokSymbol(<<"*">>), TokString(<<"a">>),
                        TokSpace(<<" ">>),
                        TokString(<<"b", " ", "\n", "A">>)>>
    /\ tokens[1] = TokSpace(<<>>)
    /\ tokens[2] = TokString(string_id_map[1][2])
    /\ tokens[4] = TokString(<<"b", " ", "\n", "A">>)
    /\ Len(string_id_map) = 1

\* The library numbers its distinct strings 0, 1, 2, ... in the order they
\* were added, one encoded string each.
TextLibIdsInOrder ==
    LET T == Get(textlib)
    IN  /\ Len(T.string_lib_lst) = Len(T.string_lib_map)
        /\ \A i \in 1..Len(T.string_lib_map) :
              /\ T.string_lib_map[i][2] = i - 1
              /\ \A j \in 1..Len(T.string_lib_map) :
                    T.string_lib_map[i][1] = T.string_lib_map[j][1] => i = j

(***************************************************************************)
(* C20.  TextLib.id_for_string returns the number k for the (k+1)-th       *)
(* distinct whitespace-collapsed string added, and returns that number     *)
(* again, adding nothing to the library, when the string is given again.   *)
(***************************************************************************)
C20_NumericIds ==
    (ret.op = "TextLib.id_for_string" /\ ret.exc = Nil) =>
        /\ TextLibIdsInOrder
        /\ ret.val = Some(PyInt(Lookup(Get(textlib).string_lib_map,
                                        CollapseWs(Get(ret.arg)))))

\* The same with the number read as the three characters that encode it.
TextLibReturnsEncodedIds ==
    (ret.op = "TextLib.id_for_string" /\ ret.exc = Nil) =>
        /\ TextLibIdsInOrder
        /\ ret.val = Some(PyStr(TextLibEncodeStringId(
                                   Lookup(Get(textlib).string_lib_map,
                                          CollapseWs(Get(ret.arg))))))

\* What a word is to the library: the codes of its lowered characters, cut
\* at the prefix length pl, a short word filled up with zeros.
WordCodes(w) ==
    [k \in 1..Len(w) |-> IndexOf(LowerCase(w[k]), TEXTLIB_CHAR_TABLE)]

PrefixOfWord(w, pl) ==
    [k \in 1..pl |-> IF k <= Len(w) THEN WordCodes(w)[k] ELSE 0]

SuffixOfWord(w, pl) ==
    IF Len(w) <= pl THEN <<>> ELSE SubSeq(WordCodes(w), pl + 1, Len(w))

\* The calls of the log that returned, and among them those that brought a
\* new prefix, or a new suffix for their prefix.
Returned(j) == word_log[j].exc = Nil

NewPrefixAt(j, pl) ==
    /\ Returned(j)
    /\ \A i \in 1..(j - 1) :
          Returned(i) =>
              PrefixOfWord(word_log[i].w, pl) # PrefixOfWord(word_log[j].w, pl)

NewSuffixAt(j, pl) ==
    /\ Returned(j)
    /\ \A i \in 1..(j - 1) :
          (Returned(i) /\ PrefixOfWord(word_log[i].w, pl)
                            = PrefixOfWord(word_log[j].w, pl))
              => SuffixOfWord(word_log[i].w, pl) # SuffixOfWord(word_log[j].w, pl)

\* The number of distinct prefixes that appeared before the prefix of call
\* j did, and of distinct suffixes of that prefix before the suffix of j.
PrefixIndex(j, pl) ==
    Cardinality({ i \in 1..j :
        /\ NewPrefixAt(i, pl)
        /\ \A h \in 1..i :
              Returned(h) =>
                  PrefixOfWord(word_log[h].w, pl)
                      # PrefixOfWord(word_log[j].w, pl) })

SuffixIndex(j, pl) ==
    Cardinality({ i \in 1..j :
        /\ NewSuffixAt(i, pl)
        /\ PrefixOfWord(word_log[i].w, pl) = PrefixOfWord(word_log[j].w, pl)
        /\ \A h \in 1..i :
              (Returned(h) /\ PrefixOfWord(word_log[h].w, pl)
                                = PrefixOfWord(word_log[j].w, pl))
                  => SuffixOfWord(word_log[h].w, pl)
                         # SuffixOfWord(word_log[j].w, pl) })

WordAt(b, a) == b[a + 1] + 256 * b[a + 2]

Bytes(b, a, z) == SubSeq(b, a + 1, z)

\* A list of suffixes as the bytes of a word entry: each with a zero after.
RECURSIVE ZeroTerminated(_)
ZeroTerminated(q) ==
    IF q = <<>> THEN <<>> ELSE Head(q) \o <<0>> \o ZeroTerminated(Tail(q))

RecordOfSid(tok) ==
    packed[CHOOSE i \in 1..Len(string_id_map) : string_id_map[i][2] = tok]

(***************************************************************************)
(* C23.  In Phase 2, for every identifier passed to _t, alone or with      *)
(* others, the decoder reads every code of the identifier's record, each   *)
(* at the width the encoder packed it with.                                *)
(***************************************************************************)
C23_Phase2Widths ==
    lua.n > 0 =>
        /\ Len(lua.reads2) = Len(lua.arg) \div 3
        /\ \A k \in 1..(Len(lua.arg) \div 3) :
              WidthsOf(lua.reads2[k])
                  = WidthsOf(RecordOfSid(SubSeq(lua.arg, 3 * k - 2, 3 * k)).codes)

\* A step that is a _t call.
DecodeStep == lua'.n = lua.n + 1

\* Phase 1 runs in the first _t call and in no later one, and a call
\* without Phase 1 leaves the overflow table as it was.
Phase1OnlyOnce ==
    [][ DecodeStep =>
          /\ lua'.p1 = (lua.n = 0)
          /\ ~lua'.p1 => (tl_d' = tl_d /\ lua'.reads = lua.reads) ]_vars

(***************************************************************************)
(* C24.  Over any sequence of _t calls Phase 1 runs exactly once, in the   *)
(* first call, and reads every record of the corpus in serialized order;   *)
(* later calls do not rerun it and leave the overflow table as it was.     *)
(***************************************************************************)
C24_Phase1Once ==
    [][ DecodeStep =>
          /\ lua'.p1 = (lua.n = 0)
          /\ lua'.p1 =>
                /\ Len(lua'.reads) = Len(packed)
                /\ \A j \in 1..Len(packed) :
                      Len(lua'.reads[j]) = Len(packed[j].codes)
          /\ ~lua'.p1 => (tl_d' = tl_d /\ lua'.reads = lua.reads) ]_vars

\* The last call was an id_for_string call that encoded: its string was not
\* in the cache.
Encoded == ret.op = "id_for_string" /\ ~ret.hit

\* Step k of the last call in the order insert, pack, widen: an entry is
\* inserted only below the cap and with the next index, the width after the
\* step is one more exactly when the inserted index is 2^width - 1, and the
\* next step, or the next record, starts from that width.
StepInOrder(k) ==
    LET s == ret.steps[k]
    IN  /\ ~IsNone(s.created) =>
              (Get(s.created) = s.n /\ s.n < MAX_TABLE_ENTRY_COUNT)
        /\ s.w2 = IF s.created = Some(Pow2(s.w) - 1) THEN s.w + 1 ELSE s.w
        /\ IF k < Len(ret.steps) THEN ret.steps[k + 1].w = s.w2
           ELSE code_width = s.w2

\* The order of the steps that got as far as packing their code.
CompletedStepsInOrder ==
    Encoded =>
        \A k \in 1..Len(ret.steps) :
            ~IsNone(ret.steps[k].code) => StepInOrder(k)

(***************************************************************************)
(* C25.  In every encoding step the new entry is inserted (below the cap), *)
(* the candidate's code is packed at the width in force before the step's  *)
(* width check, and then the width is increased if the inserted index is   *)
(* 2^width - 1, so that the increase applies from the next step on, in     *)
(* this record or the next.                                                *)
(***************************************************************************)
C25_StepOrder ==
    Encoded =>
        /\ \A k \in 1..Len(ret.steps) : StepInOrder(k)
        /\ ret.exc = Nil =>
              LastRecord.codes = [k \in 1..Len(ret.steps) |->
                                    <<Get(ret.steps[k].code), ret.steps[k].w>>]

\* Whether p is a prefix of what s has from offset a on.
PrefixAt(p, s, a) ==
    a + Len(p) <= Len(s) /\ SubSeq(s, a + 1, a + Len(p)) = p

\* The entry that the code of step k of the last call stands for.
MatchOf(k) == dict[Get(ret.steps[k].code) + 1]

(***************************************************************************)
(* C26.  Every code id_for_string emits is the code of the longest entry   *)
(* of the dictionary, as the step found it, that is a prefix of what is    *)
(* left of the normalized string; the cursor then moves on by the length   *)
(* of that entry; and the entries of the codes of a record, put together   *)
(* in order, are the normalized string.                                    *)
(***************************************************************************)
C26_LongestMatch ==
    Encoded =>
        LET s == NormalForm(ret.arg)
            S == ret.steps
        IN  /\ \A k \in 1..Len(S) :
                  ~IsNone(S[k].code) =>
                      /\ S[k].start_i = IF k = 1 THEN 0
                                        ELSE S[k - 1].start_i + Len(MatchOf(k - 1))
                      /\ Get(S[k].code) < S[k].n
                      /\ PrefixAt(MatchOf(k), s, S[k].start_i)
                      /\ \A e \in 1..S[k].n :
                            PrefixAt(dict[e], s, S[k].start_i)
                                => Len(dict[e]) <= Len(MatchOf(k))
            /\ ret.exc = Nil =>
                  /\ Len(LastRecord.codes) = Len(S)
                  /\ \A k \in 1..Len(S) :
                        LastRecord.codes[k][1] = Get(S[k].code)
                  /\ Spelled(LastRecord.codes, dict) = s

\* "ababa" on a fresh encoder: the third code stands for "ab", the longer
\* of the entries "a" and "ab" that the rest "aba" begins with.
C26_Witness ==
    /\ Encoded
    /\ ret.exc = Nil
    /\ ret.arg = <<"a", "b", "a", "b", "a">>
    /\ Len(ret.steps) = 4
    /\ MatchOf(2) = <<"b">>
    /\ MatchOf(3) = <<"a", "b">>
    /\ MatchOf(4) = <<"a">>
    /\ ret.steps[3].start_i = 2

\* Every code the steps of the last call packed fits the width it was
\* packed at.
StepCodesFit ==
    \A k \in 1..Len(ret.steps) :
        ~IsNone(ret.steps[k].code) =>
            Get(ret.steps[k].code) < Pow2(ret.steps[k].w)

\* The same for encoders whose dictionary holds alphabet characters only:
\* no call on a string with a foreign character has left an entry behind.
CodesFitAlphabetDict ==
    (Encoded /\ \A e \in 1..Len(dict) : IsAlphabetString(dict[e]))
        => StepCodesFit

(***************************************************************************)
(* C27.  In every reachable state of the encoder every code handed to the  *)
(* bit packer is smaller than 2^(code width), so that no code loses high   *)
(* bits, also once the dictionary is full.                                 *)
(***************************************************************************)
C27_CodesFit ==
    (Encoded /\ \A i \in 1..Len(string_id_map) :
                    IsAlphabetString(string_id_map[i][1]))
        => StepCodesFit

\* The address of byte k (from 1) of region r, and whether the text lies
\* over an address.
AddrOf(r, k) == memmap[r].start_a + k - 1

InText(a) == a >= start_addr /\ a < start_addr + Len(cart)

(***************************************************************************)
(* C28.  After tool.main has copied the text bytes into the regions, every *)
(* region has the length it had, every region byte whose address lies in   *)
(* [startaddr, startaddr + len(text)) is the text byte of that address,    *)
(* and every other region byte is what it was (zero in an empty game).     *)
(***************************************************************************)
C28_CopyFrame ==
    phase = "run" =>
        \A r \in 1..Len(memmap) :
            /\ Len(memmap[r].data) = memmap[r].end_a - memmap[r].start_a
            /\ \A k \in 1..Len(memmap[r].data) :
                  memmap[r].data[k]
                      = IF InText(AddrOf(r, k))
                        THEN cart[AddrOf(r, k) - start_addr + 1]
                        ELSE EmptyGame[r].data[k]

\* The same for texts that do not end at the end address of a region.
CopyFrameInside ==
    (phase = "run" /\ \A r \in 1..Len(memmap) :
                         start_addr + Len(cart) # memmap[r].end_a)
        => C28_CopyFrame

====
